---- MODULE Spec2Model ----
(***************************************************************************)
(* BaseModel.recommend of src/src/models/model.py: the batched top-K       *)
(* recommender.  One behaviour is one call of recommend (Spec), or a short *)
(* series of calls on the same fitted model (SpecCalls).  Scores are       *)
(* modelled as small naturals (0.9 is 9), the missing score and the empty  *)
(* matrix cell as NaN, Python's None as the empty tuple and a present      *)
(* value x as <<x>>.  Matrices are sequences of rows; Python's 0-based     *)
(* index k is the 1-based index k+1 here.                                  *)
(***************************************************************************)
EXTENDS Integers, Sequences, FiniteSets, TLC

\* ------------------------------------------------------------- bounds
MaxSources == 2     \* longest exhaustively enumerated source list
MaxTargets == 2     \* longest exhaustively enumerated target list
MaxSize    == 3     \* largest maxsize a caller passes
MaxCalls   == 3     \* calls of recommend in one behaviour of SpecCalls

\* ---------------------------------------------------- program constants
batch_num == 100
NaN == -1

None == <<>>
Some(x) == <<x>>

Min(a, b) == IF a <= b THEN a ELSE b
MaxOf(S) == CHOOSE x \in S : \A y \in S : y <= x

\* math.ceil(n / batch_num) for the non-negative n of len()
Ceil(n, d) == (n + d - 1) \div d

\* np.array(..., dtype='uint32') on an id.  The ids of the model are
\* unsigned integers below 2^31, all that TLC's integers hold: the
\* cast leaves each of them as it is (negative ids and ids of 2^32 or more
\* are outside the model)
Uint32(x) == x

VARIABLES recommended_type, users, movies, maxsize, score,
          pc, i, rec_items, rec_scores, exception,
          predict_log, batch_log, history, calls

args == <<recommended_type, users, movies, maxsize>>
vars == <<recommended_type, users, movies, maxsize, score,
          pc, i, rec_items, rec_scores, exception,
          predict_log, batch_log, history, calls>>

\* ------------------------------------------------- the scoring function
\* predict is abstract: a fitted model is a table of scores, one per class
\* of pair (user id mod 3, movie id / 10 mod 3), so that any number of ids
\* is scored by a table of nine cells and a shift by one batch changes the
\* class.  The score of a pair depends on the pair alone.
Classes == (0 .. 2) \X (0 .. 2)
ClassOf(pair) == <<pair[1] % 3, (pair[2] \div 10) % 3>>
PredictOne(pair) == score[ClassOf(pair)]
Predict(user_movie_pair) ==
    [p \in 1 .. Len(user_movie_pair) |-> PredictOne(user_movie_pair[p])]

\* -------------------------------------------------- _recommend_for_users
\* [[u, m] for m in movies for u in users], dtype uint32
PairsDropLastMovie(us, ms) ==
    [p \in 1 .. (Len(us) * (Len(ms) - 1)) |->
        <<Uint32(us[((p - 1) % Len(us)) + 1]),
          Uint32(ms[((p - 1) \div Len(us)) + 1])>>]
PairsForUsers(us, ms) ==
    [p \in 1 .. (Len(us) * Len(ms)) |->
        <<Uint32(us[((p - 1) % Len(us)) + 1]),
          Uint32(ms[((p - 1) \div Len(us)) + 1])>>]

\* [[u, m] for u in users for m in movies], dtype uint32
PairsForMovies(ms, us) ==
    [p \in 1 .. (Len(us) * Len(ms)) |->
        <<Uint32(us[((p - 1) \div Len(ms)) + 1]),
          Uint32(ms[((p - 1) % Len(ms)) + 1])>>]

\* np.hstack of the pair array with the (n_samples, 1) column: an empty
\* comprehension gives a 1-D array of shape (0,), which hstack refuses
HstackRaises(user_movie_pair) == Len(user_movie_pair) = 0

\* pd.DataFrame(np.hstack(...), columns=[userId, movieId, predicted])
Table(user_movie_pair, predicted) ==
    [p \in 1 .. Len(user_movie_pair) |->
        [userId |-> user_movie_pair[p][1],
         movieId |-> user_movie_pair[p][2],
         predicted |-> predicted[p]]]

IsPresent(row) == row.predicted # NaN
\* df_table.dropna(): only the predicted column can hold NaN
DropNa(df_table) == SelectSeq(df_table, IsPresent)

\* groupby(key, sort=False)['predicted'].rank(ascending=False, method='first')
\* for row r: one more than the rows of r's group that sort before it
RankAscending(df_table, key, r) ==
    1 + Cardinality({q \in 1 .. Len(df_table) :
            /\ df_table[q][key] = df_table[r][key]
            /\ \/ df_table[q].predicted < df_table[r].predicted
               \/ df_table[q].predicted = df_table[r].predicted /\ q < r})
RankTieLast(df_table, key, r) ==
    1 + Cardinality({q \in 1 .. Len(df_table) :
            /\ df_table[q][key] = df_table[r][key]
            /\ \/ df_table[q].predicted > df_table[r].predicted
               \/ df_table[q].predicted = df_table[r].predicted /\ q > r})
Rank(df_table, key, r) ==
    1 + Cardinality({q \in 1 .. Len(df_table) :
            /\ df_table[q][key] = df_table[r][key]
            /\ \/ df_table[q].predicted > df_table[r].predicted
               \/ df_table[q].predicted = df_table[r].predicted /\ q < r})

\* {u: i for i, u in enumerate(users)}[id]: a later entry replaces an earlier
IndexMapping(ids, id) == MaxOf({k \in 1 .. Len(ids) : ids[k] = id})

\* np.full([rows, maxsize], None, dtype='float64')
Full(rows, cols) == [r \in 1 .. rows |-> [c \in 1 .. cols |-> NaN]]

\* lines 85-100: rank, keep rank <= maxsize, and write column `val` of every
\* kept row to [index of its id, rank - 1]; the last write to a cell stays
Place(df_table, ids, key, val, size) ==
    IF Len(df_table) = 0 THEN Full(Len(ids), size)
    ELSE LET N == Len(df_table)
             rank == [q \in 1 .. N |-> Rank(df_table, key, q)] \o <<>>
             index0 == [q \in 1 .. N |-> IndexMapping(ids, df_table[q][key])] \o <<>>
             kept == {q \in 1 .. N : rank[q] <= size}
         IN [r \in 1 .. Len(ids) |->
               [c \in 1 .. size |->
                  LET w == {q \in kept : index0[q] = r /\ rank[q] = c}
                  IN IF w = {} THEN NaN ELSE df_table[MaxOf(w)][val]]]

\* if maxsize is None: maxsize = len(movies)
SizeOr(mx, candidates) == IF mx = None THEN Len(candidates) ELSE mx[1]

\* lines 66-102, after predict has returned and hstack has not raised
RecommendForUsers(us, ms, mx) ==
    LET user_movie_pair == PairsForUsers(us, ms)
        df_table == DropNa(Table(user_movie_pair, Predict(user_movie_pair)))
        size == SizeOr(mx, ms)
    IN <<Place(df_table, us, "userId", "movieId", size),
         Place(df_table, us, "userId", "predicted", size)>>

\* lines 104-140
RecommendForMovies(ms, us, mx) ==
    LET user_movie_pair == PairsForMovies(ms, us)
        df_table == DropNa(Table(user_movie_pair, Predict(user_movie_pair)))
        size == SizeOr(mx, us)
    IN <<Place(df_table, ms, "movieId", "userId", size),
         Place(df_table, ms, "movieId", "predicted", size)>>

\* -------------------------------------------------------------- recommend
\* the if / elif / else of lines 168, 186, 204
BranchElse(t) == IF t = "movie" THEN "movie" ELSE "user"
Branch(t) == IF t = "movie" THEN "movie" ELSE IF t = "user" THEN "user" ELSE "else"

\* the list that is batched and the list every batch is paired with
Sources == IF recommended_type = "movie" THEN users ELSE movies
Targets == IF recommended_type = "movie" THEN movies ELSE users
\* user_num, movie_num
SourceNum == Len(Sources)
NumBatches == Ceil(SourceNum, batch_num)

\* line 164: rec_items, rec_scores = None, None
KeepRec(prev) == prev
InitialRec(prev) == None

\* np.vstack((rec, sub))
VStackAbove(rec, sub) == sub \o rec
VStack(rec, sub) == rec \o sub

\* the pair array of the batch users[start:end] or movies[start:end]
BatchPairs(batch) ==
    IF recommended_type = "movie" THEN PairsForUsers(batch, movies)
    ELSE PairsForMovies(batch, users)
BatchResult(batch) ==
    IF recommended_type = "movie" THEN RecommendForUsers(batch, movies, maxsize)
    ELSE RecommendForMovies(batch, users, maxsize)

Raise(e) ==
    /\ pc' = "RAISED"
    /\ exception' = e

\* lines 164-170, 186-188, 204-205: entry and the choice of direction
Start ==
    /\ pc = "INIT"
    /\ rec_items' = InitialRec(rec_items)
    /\ rec_scores' = InitialRec(rec_scores)
    /\ IF Branch(recommended_type) = "else"
       THEN Raise("ValueError")
       ELSE pc' = "ITERATING" /\ UNCHANGED exception
    /\ UNCHANGED <<recommended_type, users, movies, maxsize, score, i,
                   predict_log, batch_log, history, calls>>

\* lines 172-181, 190-199: one turn of the batch loop.  predict is opaque
\* and may raise; what it raises reaches the caller.
Batch ==
    /\ pc = "ITERATING"
    /\ i < NumBatches
    /\ LET start == i * batch_num
           end == Min((i + 1) * batch_num, SourceNum)
           batch == SubSeq(Sources, start + 1, end)
           user_movie_pair == BatchPairs(batch)
       IN /\ predict_log' = Append(predict_log, user_movie_pair)
          /\ batch_log' = Append(batch_log, [start |-> start, end |-> end])
          /\ \E returns \in BOOLEAN :
               IF ~returns THEN
                  /\ Raise("PredictError")
                  /\ UNCHANGED <<rec_items, rec_scores, i>>
               ELSE IF HstackRaises(user_movie_pair) THEN
                  /\ Raise("ValueError")
                  /\ UNCHANGED <<rec_items, rec_scores, i>>
               ELSE
                  LET sub == BatchResult(batch)
                  IN /\ IF rec_items = None /\ rec_scores = None
                        THEN /\ rec_items' = Some(sub[1])
                             /\ rec_scores' = Some(sub[2])
                        ELSE /\ rec_items' = Some(VStack(rec_items[1], sub[1]))
                             /\ rec_scores' = Some(VStack(rec_scores[1], sub[2]))
                     /\ i' = i + 1
                     /\ UNCHANGED <<pc, exception>>
    /\ UNCHANGED <<recommended_type, users, movies, maxsize, score,
                   history, calls>>

\* lines 183-184, 201-202, 207: the loop is over; the two assertions read
\* .shape of what may still be None, then the matrices are returned
Finish ==
    /\ pc = "ITERATING"
    /\ i = NumBatches
    /\ IF rec_items = None \/ rec_scores = None
       THEN Raise("AttributeError")
       ELSE IF Len(rec_items[1]) # SourceNum \/ Len(rec_scores[1]) # SourceNum
       THEN Raise("AssertionError")
       ELSE pc' = "DONE" /\ UNCHANGED exception
    /\ UNCHANGED <<recommended_type, users, movies, maxsize, score, i,
                   rec_items, rec_scores, predict_log, batch_log,
                   history, calls>>

\* ----------------------------------------------------------------- inputs
SeqsUpTo(S, n) == UNION {[1 .. k -> S] : k \in 0 .. n}
Types == {"movie", "user", "other"}
UserIds == {1, 2}
MovieIds == {10, 20}
Sizes == {None} \cup {Some(k) : k \in 1 .. MaxSize}

\* every table over {missing, 1, 2} for the classes of UserIds x MovieIds
SmallCells == {ClassOf(<<u, m>>) : u \in UserIds, m \in MovieIds}
SmallTables ==
    {[c \in Classes |-> IF c \in SmallCells THEN t[c] ELSE NaN] :
        t \in [SmallCells -> {NaN, 1, 2}]}
\* the scenario of the specification's section 8, scores times ten:
\* (1,10) 0.9, (1,20) 0.5, (1,30) missing, (2,10) 0.1, (2,20) 0.1, (2,30) 0.8;
\* the ids of class 0 (3, 6, ...) have no score at all
ScenarioScore ==
    [c \in Classes |->
        IF c = <<1, 1>> THEN 9 ELSE IF c = <<1, 2>> THEN 5
        ELSE IF c = <<2, 1>> \/ c = <<2, 2>> THEN 1
        ELSE IF c = <<2, 0>> THEN 8 ELSE NaN]

\* source lists that cross the batch size: ids 1 .. n in order, or the same
\* with the first id again in the last place
BatchLens == {batch_num, batch_num + 1, 2 * batch_num + batch_num \div 2}
Iota(n, step, dup) ==
    [k \in 1 .. n |-> IF dup /\ k = n THEN step ELSE k * step]

Idle ==
    /\ pc = "INIT" /\ i = 0
    /\ rec_items = None /\ rec_scores = None
    /\ exception = "none"
    /\ predict_log = <<>> /\ batch_log = <<>>
    /\ history = <<>> /\ calls = 1

\* every call on the small id sets, under every small table
InitSmall ==
    /\ recommended_type \in Types
    /\ users \in SeqsUpTo(UserIds, IF recommended_type = "user" THEN MaxTargets ELSE MaxSources)
    /\ movies \in SeqsUpTo(MovieIds, IF recommended_type = "user" THEN MaxSources ELSE MaxTargets)
    /\ maxsize \in Sizes
    /\ score \in SmallTables
    /\ Idle

\* the scenario of section 8, in a list of two or three targets
InitScenario ==
    /\ recommended_type = "movie"
    /\ users = <<1, 2>>
    /\ movies \in {<<10, 20, 30>>, <<30, 20, 10>>}
    /\ maxsize \in Sizes
    /\ score = ScenarioScore
    /\ Idle

\* source lists of one, two and three batches under the scenario's table
InitBatch ==
    /\ recommended_type \in {"movie", "user"}
    /\ \E n \in BatchLens, dup \in BOOLEAN :
         IF recommended_type = "movie"
         THEN users = Iota(n, 1, dup) /\ movies = <<10, 20>>
         ELSE movies = Iota(n, 10, dup) /\ users = <<1, 2>>
    /\ maxsize \in {None, Some(1)}
    /\ score = ScenarioScore
    /\ Idle

Init == InitSmall \/ InitScenario \/ InitBatch

Next == Start \/ Batch \/ Finish

Spec == Init /\ [][Next]_vars


\* ------------------------------------------------- a series of calls
\* what a call ended in: how it ended, what it raised, what it returned
Outcome ==
    <<pc, exception, IF pc = "DONE" THEN <<rec_items, rec_scores>> ELSE None>>

CallTypes == {"movie", "user", "other"}
CallUsers == {<<1, 2>>, <<2, 1>>}
CallMovies == {<<10, 20>>}
CallSizes == {None, Some(1)}

\* the caller calls recommend again on the same fitted model; the names
\* rec_items and rec_scores are bound anew at line 164 only
NewCall ==
    /\ pc \in {"DONE", "RAISED"}
    /\ calls < MaxCalls
    /\ history' = Append(history, [args |-> args, outcome |-> Outcome])
    /\ calls' = calls + 1
    /\ recommended_type' \in CallTypes
    /\ users' \in CallUsers
    /\ movies' \in CallMovies
    /\ maxsize' \in CallSizes
    /\ pc' = "INIT"
    /\ i' = 0
    /\ exception' = "none"
    /\ predict_log' = <<>>
    /\ batch_log' = <<>>
    /\ UNCHANGED <<score, rec_items, rec_scores>>

InitCalls ==
    /\ recommended_type \in CallTypes
    /\ users \in CallUsers
    /\ movies \in CallMovies
    /\ maxsize \in CallSizes
    /\ score = ScenarioScore
    /\ Idle

NextCalls == Start \/ Batch \/ Finish \/ NewCall

SpecCalls == InitCalls /\ [][NextCalls]_vars

\* ------------------------------------------------ what the claims speak of
ValidDirection == recommended_type \in {"movie", "user"}
\* the call is over and no predict call raised
Ended == pc \in {"DONE", "RAISED"} /\ exception # "PredictError"
\* K: maxsize, or the number of target candidates
K == IF maxsize = None THEN Len(Targets) ELSE maxsize[1]

Distinct(seq) == \A a, b \in 1 .. Len(seq) : seq[a] = seq[b] => a = b
Count(seq, x) == Cardinality({p \in 1 .. Len(seq) : seq[p] = x})
HasShape(m, rows, cols) ==
    /\ m # None
    /\ Len(m[1]) = rows
    /\ \A r \in 1 .. rows : Len(m[1][r]) = cols

\* the pair of the source at position r and the target at position t, and
\* the score the scoring function gives it
PairAt(r, t) ==
    IF recommended_type = "movie" THEN <<Sources[r], Targets[t]>>
    ELSE <<Targets[t], Sources[r]>>
ScoreAt(r, t) == PredictOne(PairAt(r, t))
\* the target positions of source r with a score, and their ranking order
Scored(r) == {t \in 1 .. Len(Targets) : ScoreAt(r, t) # NaN}
Before(r, t1, t2) ==
    \/ ScoreAt(r, t1) > ScoreAt(r, t2)
    \/ ScoreAt(r, t1) = ScoreAt(r, t2) /\ t1 < t2
\* the target position with the j-th best rank of source r, 0 if none
Nth(r, j) ==
    LET c == {t \in Scored(r) :
                Cardinality({t1 \in Scored(r) : Before(r, t1, t)}) = j - 1}
    IN IF c = {} THEN 0 ELSE CHOOSE t \in c : TRUE
ExpectedItem(r, j) == IF Nth(r, j) = 0 THEN NaN ELSE Targets[Nth(r, j)]
ExpectedScore(r, j) == IF Nth(r, j) = 0 THEN NaN ELSE ScoreAt(r, Nth(r, j))
Filled(row) == {c \in 1 .. Len(row) : row[c] # NaN}

RECURSIVE Concat(_)
Concat(log) == IF log = <<>> THEN <<>> ELSE Head(log) \o Concat(Tail(log))


\* ------------------------------------------------------------------ claims

\* C1: every call with a valid direction whose predict calls return ends by
\* returning two matrices of shape (number of sources, K), for any number of
\* sources (zero included) and of targets; no assertion fails.
C1_ShapeAlways ==
    (ValidDirection /\ Ended) =>
        /\ pc = "DONE"
        /\ HasShape(rec_items, SourceNum, K)
        /\ HasShape(rec_scores, SourceNum, K)

\* with at least one source and one target the call does return that shape
ShapeWhenNonEmpty ==
    (ValidDirection /\ Ended /\ SourceNum > 0 /\ Len(Targets) > 0) =>
        /\ pc = "DONE"
        /\ HasShape(rec_items, SourceNum, K)
        /\ HasShape(rec_scores, SourceNum, K)
\* and with none of either it raises
RaisesWhenEmpty ==
    (ValidDirection /\ Ended /\ (SourceNum = 0 \/ Len(Targets) = 0)) =>
        /\ pc = "RAISED"
        /\ exception = IF SourceNum = 0 THEN "AttributeError" ELSE "ValueError"

\* C2: for every source sequence, row r of the returned matrices is the
\* ranking of the r-th source: cell [r, j] holds the target with the j-th
\* best rank among that source's scored pairs, and that pair's score.
C2_RowIsRankingOfSource ==
    pc = "DONE" =>
        \A r \in 1 .. SourceNum : \A j \in 1 .. K :
            /\ rec_items[1][r][j] = ExpectedItem(r, j)
            /\ rec_scores[1][r][j] = ExpectedScore(r, j)

\* the same for source lists of pairwise distinct ids
RowsWhenDistinct ==
    (pc = "DONE" /\ Distinct(Sources)) =>
        \A r \in 1 .. SourceNum : \A j \in 1 .. K :
            /\ rec_items[1][r][j] = ExpectedItem(r, j)
            /\ rec_scores[1][r][j] = ExpectedScore(r, j)

\* C3: in every returned row the filled scores do not increase from left to
\* right, no sentinel is followed by a filled cell, and a cell is a sentinel
\* in the item matrix exactly when it is one in the score matrix.
C3_RowsSortedNoGaps ==
    pc = "DONE" =>
        \A r \in 1 .. SourceNum :
            /\ \A j \in 1 .. K :
                 (rec_items[1][r][j] = NaN) <=> (rec_scores[1][r][j] = NaN)
            /\ \A j \in 1 .. K - 1 :
                 /\ rec_scores[1][r][j] = NaN => rec_scores[1][r][j + 1] = NaN
                 /\ rec_scores[1][r][j + 1] # NaN =>
                        rec_scores[1][r][j] >= rec_scores[1][r][j + 1]
C3_Witness ==
    /\ pc = "DONE"
    /\ K >= 3
    /\ \E r \in 1 .. SourceNum :
         /\ rec_scores[1][r][1] > rec_scores[1][r][2]
         /\ rec_scores[1][r][2] # NaN
         /\ rec_scores[1][r][3] = NaN
         /\ Cardinality(Scored(r)) < Len(Targets)

\* C4: of two pairs of one source with equal scores, the one whose target
\* comes earlier in the caller's target list gets the more leftward column,
\* whatever the ids; the scenario of section 8 gives items [30, 10] and
\* scores [0.8, 0.1] for source 2.
C4_TiesByFirstOccurrence ==
    pc = "DONE" =>
        /\ Distinct(Targets) =>
             \A r \in 1 .. SourceNum : \A t1, t2 \in Scored(r) :
                 (t1 < t2 /\ ScoreAt(r, t1) = ScoreAt(r, t2)) =>
                     \A c2 \in 1 .. K :
                         rec_items[1][r][c2] = Targets[t2] =>
                             \E c1 \in 1 .. c2 - 1 :
                                 rec_items[1][r][c1] = Targets[t1]
        /\ (args = <<"movie", <<1, 2>>, <<10, 20, 30>>, Some(2)>>
              /\ score = ScenarioScore) =>
             /\ rec_items[1] = <<(<<10, 20>>), (<<30, 10>>)>>
             /\ rec_scores[1] = <<(<<9, 5>>), (<<8, 1>>)>>
C4_Witness ==
    /\ pc = "DONE"
    /\ Distinct(Targets)
    /\ \E r \in 1 .. SourceNum : \E t1, t2 \in Scored(r) :
         /\ t1 < t2
         /\ ScoreAt(r, t1) = ScoreAt(r, t2)
         /\ Targets[t1] > Targets[t2]
         /\ \E c1, c2 \in 1 .. K :
              /\ c1 < c2
              /\ rec_items[1][r][c1] = Targets[t1]
              /\ rec_items[1][r][c2] = Targets[t2]

\* C5: a pair without a score takes no cell and no rank: every returned row
\* has exactly min(K, number of the source's scored pairs) filled cells, and
\* they are its leftmost cells.
C5_FilledCount ==
    pc = "DONE" =>
        \A r \in 1 .. SourceNum :
            /\ Filled(rec_items[1][r]) = 1 .. Min(K, Cardinality(Scored(r)))
            /\ Filled(rec_scores[1][r]) = 1 .. Min(K, Cardinality(Scored(r)))

\* the same for source lists of pairwise distinct ids
FilledWhenDistinct ==
    (pc = "DONE" /\ Distinct(Sources)) =>
        \A r \in 1 .. SourceNum :
            /\ Filled(rec_items[1][r]) = 1 .. Min(K, Cardinality(Scored(r)))
            /\ Filled(rec_scores[1][r]) = 1 .. Min(K, Cardinality(Scored(r)))

\* C6: a call whose direction is neither 'movie' nor 'user' ends in
\* ValueError and nothing else happens: the batch loop is never entered,
\* predict is never called and no matrix is built or returned.
C6_InvalidDirection ==
    ~ValidDirection =>
        /\ pc \in {"INIT", "RAISED"}
        /\ pc = "RAISED" => exception = "ValueError"
        /\ i = 0
        /\ predict_log = <<>>
        /\ batch_log = <<>>
        /\ rec_items = None
        /\ rec_scores = None
C6_Witness ==
    /\ ~ValidDirection
    /\ pc = "RAISED"
    /\ exception = "ValueError"
    /\ Len(users) > 0
    /\ Len(movies) > 0

\* C7: a call that ends (its predict calls returning) ends as every earlier
\* call with the same direction, lists and maxsize ended, with the same
\* matrices, whatever calls came in between.
C7_SameCallSameResult ==
    Ended =>
        \A k \in 1 .. Len(history) :
            (history[k].args = args /\ history[k].outcome[2] # "PredictError")
                => history[k].outcome = Outcome
C7_Witness ==
    /\ pc = "DONE"
    /\ Len(history) = 2
    /\ history[1].args = args
    /\ history[1].outcome[1] = "DONE"
    /\ history[2].args # args
    /\ history[2].outcome[1] = "DONE"
    /\ history[2].outcome # history[1].outcome

\* batch k of the driver covers the source positions 100(k-1) .. min(100k, n)-1,
\* is not empty, has at most 100 sources, and is stacked below the rows so far
BatchesPartition ==
    ValidDirection =>
        /\ Len(batch_log) <= NumBatches
        /\ \A k \in 1 .. Len(batch_log) :
             /\ batch_log[k].start = batch_num * (k - 1)
             /\ batch_log[k].end = Min(batch_num * k, SourceNum)
             /\ batch_log[k].end > batch_log[k].start
             /\ batch_log[k].end - batch_log[k].start <= batch_num
        /\ pc \in {"ITERATING", "DONE"} =>
             /\ i = Len(batch_log)
             /\ i = 0 => rec_items = None /\ rec_scores = None
             /\ i > 0 => /\ Len(rec_items[1]) = batch_log[i].end
                         /\ Len(rec_scores[1]) = batch_log[i].end

\* C8: for n sources the driver runs ceil(n/100) batches in increasing order,
\* batch k over the positions 100k .. min(100(k+1), n)-1, each non-empty and
\* of at most 100 sources, stacked in order, and it always reaches DONE when
\* every predict call returns.
C8_DriverReachesDone ==
    /\ BatchesPartition
    /\ (ValidDirection /\ Ended) =>
         /\ pc = "DONE"
         /\ Len(batch_log) = NumBatches

\* C9: over a completed call every combination of a source position and a
\* target position is handed to predict exactly once and nothing else is;
\* each predict call gets the cross-product of one batch with all targets.
C9_EveryPairScoredOnce ==
    (ValidDirection /\ pc = "DONE") =>
        /\ Len(predict_log) = NumBatches
        /\ Len(Concat(predict_log)) = SourceNum * Len(Targets)
        /\ \A r \in 1 .. SourceNum : \A t \in 1 .. Len(Targets) :
             Count(Concat(predict_log), PairAt(r, t))
                 = Count(Sources, Sources[r]) * Count(Targets, Targets[t])
        /\ \A k \in 1 .. Len(predict_log) :
             LET first == batch_num * (k - 1) + 1
                 last == Min(batch_num * k, SourceNum)
                 batch == SubSeq(Sources, first, last)
             IN /\ Len(predict_log[k]) = Len(batch) * Len(Targets)
                /\ \A r \in first .. last : \A t \in 1 .. Len(Targets) :
                     Count(predict_log[k], PairAt(r, t))
                         = Count(batch, Sources[r]) * Count(Targets, Targets[t])
C9_Witness ==
    /\ ValidDirection
    /\ pc = "DONE"
    /\ Len(predict_log) = 3
    /\ Len(Targets) = 2
    /\ Distinct(Sources)

\* C10: for pairwise distinct sources, recommend returns matrices exactly
\* when one run of the per-batch ranker over the whole source list does, and
\* they are the same matrices.
C10_BatchingInvisible ==
    (ValidDirection /\ Ended /\ Distinct(Sources)) =>
        IF HstackRaises(BatchPairs(Sources))
        THEN pc = "RAISED"
        ELSE /\ pc = "DONE"
             /\ rec_items = Some(BatchResult(Sources)[1])
             /\ rec_scores = Some(BatchResult(Sources)[2])
C10_Witness ==
    /\ ValidDirection
    /\ pc = "DONE"
    /\ Distinct(Sources)
    /\ SourceNum > 2 * batch_num
    /\ maxsize = None
\* without distinctness a source repeated in two batches tells them apart
BatchingInvisibleAnySources ==
    (ValidDirection /\ pc = "DONE") =>
        /\ rec_items = Some(BatchResult(Sources)[1])
        /\ rec_scores = Some(BatchResult(Sources)[2])

====
